---- MODULE Spec2Model ----
(***************************************************************************)
(* Model of the commit pipeline of huggingface_hub:                         *)
(* AsyncHfApi.create_commit (src/huggingface_hub/async_hf_api.py) with its *)
(* token validation, upload-mode classification, LFS upload phase, payload *)
(* construction and commit submission.                                     *)
(*                                                                         *)
(* Optional values (Python None / a value) are None and Some(v).           *)
(* Strings that the code inspects are sequences of segments.               *)
(***************************************************************************)
EXTENDS Integers, Sequences, FiniteSets, TLC

VARIABLES pc, args, saved_token, token, revision, create_pr, additions,
          deletions, additions_with_upload_mode, lfs_additions, lfs_exists,
          lfs_pending, lfs_inflight, lfs_done, lfs_failed, commit_payload,
          requests, responses, exc, result, api, facade, call, walked,
          credential_store, returned, self, parked, head, answers, applied,
          gen, page_index, has_next, discussions, yielded, page_requests,
          pages, consumer, hub

vars == <<pc, args, saved_token, token, revision, create_pr, additions,
          deletions, additions_with_upload_mode, lfs_additions, lfs_exists,
          lfs_pending, lfs_inflight, lfs_done, lfs_failed, commit_payload,
          requests, responses, exc, result, api, facade, call, walked,
          credential_store, returned, self, parked, head, answers, applied,
          gen, page_index, has_next, discussions, yielded, page_requests,
          pages, consumer, hub>>

(* the caller's side of a call: the method called, through which class,    *)
(* its arguments, whether the folder walk has begun; and the git           *)
(* credential store                                                        *)
(* two invocations of create_commit against one hub: the invocation that   *)
(* is running, the local state of the suspended one, and the hub's side    *)
(* (the commit each revision points to, its answers, the commits applied)  *)
concvars == <<self, parked, head, answers, applied>>

(* one iteration of get_repo_discussions: the generator's position and     *)
(* locals, what the consumer received, the pages asked and received, and   *)
(* the hub's discussions                                                   *)
discvars == <<gen, page_index, has_next, discussions, yielded,
              page_requests, pages, consumer, hub>>

apivars == <<api, facade, call, walked, credential_store, concvars, discvars>>

(* ---------------- bounds ---------------- *)
MaxOps == 2
MaxThreads == 2
(* the discussions of the repository, the discussions on one page, and    *)
(* the last page index the hub answers                                     *)
MaxCount == 2
MaxPageSize == 2
MaxPage == 2

(* ---------------- optional values ---------------- *)
None == <<>>
Some(v) == <<v>>
IsNone(o) == o = <<>>
Val(o) == o[1]

(* ---------------- constants of the package ---------------- *)
DEFAULT_REVISION == <<"main">>
REPO_TYPE_MODEL == "model"
REPO_TYPES == {None, Some("model"), Some("dataset"), Some("space")}
DEFAULT_NUM_THREADS == 5
ENDPOINT == "https://hub"
RepoId == "user/repo"
HexDigits == {"0", "1", "2", "3", "4", "5", "6", "7", "8", "9",
              "a", "b", "c", "d", "e", "f", "A", "B", "C", "D", "E", "F"}
ShortOidLen == 7
FullOidLen == 40

(* REGEX_COMMIT_OID.fullmatch(s): s is a full or a 7-character hex OID *)
REGEX_COMMIT_OID_fullmatch(s) ==
    /\ Len(s) \in {ShortOidLen, FullOidLen}
    /\ \A i \in 1..Len(s) : s[i] \in HexDigits

(* urllib.parse.quote(s, safe=""): every reserved character is escaped *)
QuoteSeg(c) == IF c = "/" THEN "%2F" ELSE c
quote(s) == [i \in 1..Len(s) |-> QuoteSeg(s[i])]

(* variant: no string is found to start with the prefix *)
startswith_Never(s, prefix) == FALSE

(* str.startswith on a segmented string *)
startswith(s, prefix) == Len(s) >= 1 /\ s[1] = prefix

(* ---------------- inputs ---------------- *)
Paths == {"a", "b"}
OpAdd(p) == [kind |-> "add", path |-> p, content |-> "bytes"]
OpAddMissing(p) == [kind |-> "add", path |-> p, content |-> "nofile"]
OpDelete(p) == [kind |-> "delete", path |-> p, content |-> "none"]
OpOther == [kind |-> "other", path |-> "a", content |-> "none"]
Ops == {OpAdd(p) : p \in Paths} \cup {OpDelete(p) : p \in Paths}
         \cup {OpAddMissing("b"), OpOther}
OpLists == UNION {[1..n -> Ops] : n \in 0..MaxOps}

NotHex == <<"n", "o", "t", "h", "e", "x">>
ShortOid == <<"a", "1", "b", "2", "c", "3", "d">>
FullOid == [i \in 1..FullOidLen |-> IF i % 2 = 0 THEN "0" ELSE "f"]
ParentCommits == {None, Some(NotHex), Some(ShortOid), Some(FullOid)}
Messages == {None, Some(<<>>), Some(<<"Update">>)}
RepoTypeArgs == {None, Some("dataset"), Some("bogus")}
Tokens == {None, Some(<<"hf_", "user">>), Some(<<"api_org", "_x">>)}
Revisions == {None, Some(<<"main">>), Some(<<"feature-x">>),
              Some(<<"refs", "/", "pr", "/", "1">>)}
CreatePrArgs == {None, Some(FALSE), Some(TRUE)}
NumThreads == 1..MaxThreads

ShortOpLists == {ops \in OpLists : Len(ops) <= 1}

(* the calls of create_commit: every combination of the other arguments    *)
(* with at most one operation, and every list of operations with the       *)
(* arguments that pass the local checks                                    *)
CallArgs ==
    [operations : ShortOpLists, commit_message : Messages,
     token : Tokens, repo_type : RepoTypeArgs, revision : Revisions,
     create_pr : CreatePrArgs, num_threads : NumThreads,
     parent_commit : ParentCommits]
    \cup
    [operations : OpLists, commit_message : {Some(<<"Update">>)},
     token : {Some(<<"hf_", "user">>)}, repo_type : {None, Some("dataset")},
     revision : Revisions, create_pr : CreatePrArgs,
     num_threads : NumThreads, parent_commit : {None, Some(ShortOid)}]

NoArgs == [operations |-> <<>>, commit_message |-> None, token |-> None,
           repo_type |-> None, revision |-> None, create_pr |-> None,
           num_threads |-> DEFAULT_NUM_THREADS, parent_commit |-> None]

(* ---------------- helpers of create_commit ---------------- *)
IsAdd(op) == op.kind = "add"
IsDelete(op) == op.kind = "delete"

(* additions = [op for op in operations if isinstance(op, CommitOperationAdd)] *)
Additions(operations) == SelectSeq(operations, IsAdd)
(* deletions = [op for op in operations if isinstance(op, CommitOperationDelete)] *)
Deletions(operations) == SelectSeq(operations, IsDelete)

(* CommitOperationAdd.validate(): the content source must be readable *)
validate(op) == op.content = "bytes"

IsLfs(pair) == pair[2] = "lfs"

(* variant: every addition is handed to the uploader *)
LfsAdditions_All(awm) == [i \in 1..Len(awm) |-> awm[i][1]]

(* [addition for (addition, upload_mode) in ... if upload_mode == "lfs"] *)
LfsAdditions(awm) ==
    LET sel == SelectSeq(awm, IsLfs) IN [i \in 1..Len(sel) |-> sel[i][1]]

(* repo_type if repo_type is not None else REPO_TYPE_MODEL *)
RepoTypeOrDefault(rt) == IF IsNone(rt) THEN Some(REPO_TYPE_MODEL) ELSE rt
(* variant: the revision is not percent-encoded *)
RevisionOrDefault_NoQuote(r) == IF IsNone(r) THEN DEFAULT_REVISION ELSE Val(r)

(* quote(revision, safe="") if revision is not None else DEFAULT_REVISION *)
RevisionOrDefault(r) == IF IsNone(r) THEN DEFAULT_REVISION ELSE quote(Val(r))
(* create_pr if create_pr is not None else False *)
CreatePrOrDefault(c) == IF IsNone(c) THEN FALSE ELSE Val(c)

(* variant: the parent_commit shape is not checked *)
ArgumentError_NoOidCheck(a) ==
    IF IsNone(a.commit_message) \/ a.commit_message = Some(<<>>)
    THEN "commit_message"
    ELSE IF RepoTypeOrDefault(a.repo_type) \notin REPO_TYPES
    THEN "repo_type"
    ELSE "ok"

(* variant: the commit message is not checked *)
ArgumentError_NoMessageCheck(a) ==
    IF ~IsNone(a.parent_commit)
          /\ ~REGEX_COMMIT_OID_fullmatch(Val(a.parent_commit))
    THEN "parent_commit"
    ELSE IF RepoTypeOrDefault(a.repo_type) \notin REPO_TYPES
    THEN "repo_type"
    ELSE "ok"

(* the first failing local precondition of lines 1516-1530, or "ok" *)
ArgumentError(a) ==
    IF ~IsNone(a.parent_commit)
          /\ ~REGEX_COMMIT_OID_fullmatch(Val(a.parent_commit))
    THEN "parent_commit"
    ELSE IF IsNone(a.commit_message) \/ a.commit_message = Some(<<>>)
    THEN "commit_message"
    ELSE IF RepoTypeOrDefault(a.repo_type) \notin REPO_TYPES
    THEN "repo_type"
    ELSE "ok"

(* variant: the kinds of the operations are not checked *)
OperationsError_NoKindCheck(cpr, rev, operations) ==
    IF cpr /\ rev # DEFAULT_REVISION
    THEN "create_pr"
    ELSE IF \E i \in 1..Len(Additions(operations)) :
                ~validate(Additions(operations)[i])
    THEN "invalid_addition"
    ELSE "ok"

(* the failing check of lines 1537-1556, or "ok" *)
OperationsError(cpr, rev, operations) ==
    IF cpr /\ rev # DEFAULT_REVISION
    THEN "create_pr"
    ELSE IF Len(Additions(operations)) + Len(Deletions(operations))
               # Len(operations)
    THEN "unknown_operation"
    ELSE IF \E i \in 1..Len(Additions(operations)) :
                ~validate(Additions(operations)[i])
    THEN "invalid_addition"
    ELSE "ok"

(* token = HfFolder.get_token() when no token is passed *)
RetrieveToken(t) == IF IsNone(t) THEN saved_token ELSE t

(* ---------------- commit payload ---------------- *)
HeaderRecord(msg, descr, parent) ==
    [key |-> "header", summary |-> msg, description |-> descr,
     parentCommit |-> parent]
AdditionRecord(pair) ==
    [key |-> IF pair[2] = "lfs" THEN "lfsFile" ELSE "file",
     path |-> pair[1].path]
DeletionRecord(op) == [key |-> "deletedFile", path |-> op.path]

(* prepare_commit_payload(additions, deletions, commit_message, ...) *)
prepare_commit_payload(awm, dels, msg, descr, parent) ==
    <<HeaderRecord(msg, descr, parent)>>
      \o [i \in 1..Len(awm) |-> AdditionRecord(awm[i])]
      \o [i \in 1..Len(dels) |-> DeletionRecord(dels[i])]

(* ---------------- exceptions ---------------- *)
Raise(type, what) == [type |-> type, what |-> what, note |-> "none"]
NoExc == Raise("none", "none")

(* hf_raise_for_status on a response status *)
Statuses == {200, 404, 500}
StatusError(status, endpoint_name) ==
    IF status = 200 THEN NoExc
    ELSE IF status = 404 THEN Raise("RepositoryNotFoundError", endpoint_name)
    ELSE Raise("HTTPError", endpoint_name)

(* variant: the handler does not re-raise *)
OnFetchError_Swallow(e) == NoExc

(* try: fetch_upload_modes(...) except RepositoryNotFoundError as e:       *)
(*     e.append_to_message("... use `create_repo` ..."); raise             *)
(* the exception that leaves the try block when the call raised e          *)
OnFetchError(e) ==
    IF e.type = "RepositoryNotFoundError"
    THEN [e EXCEPT !.note = "create_repo"]
    ELSE e

(* variant: one worker too many *)
PoolSize_PlusOne(num_threads) == num_threads + 1

(* num_threads=num_threads: the pool size handed to upload_lfs_files *)
PoolSize(num_threads) == num_threads

(* upload_lfs_files has returned or raised: no worker is running and       *)
(* either every file was handed to a worker or an upload has failed        *)
PoolDrained ==
    /\ lfs_inflight = {}
    /\ lfs_pending = <<>> \/ lfs_failed # {}

(* variant: the uploads are not waited for *)
CanBuildPayload_NoWait == pc = "lfs"

(* prepare_commit_payload is reached only once upload_lfs_files returned *)
CanBuildPayload == pc = "lfs" /\ PoolDrained

(* variant: the parent commit is not handed to the builder *)
BuildPayload_NoParent(awm, dels, a) ==
    prepare_commit_payload(awm, dels, a.commit_message, "", None)

(* variant: the deletions are not handed to the builder *)
BuildPayload_NoDeletions(awm, dels, a) ==
    prepare_commit_payload(awm, <<>>, a.commit_message, "", a.parent_commit)

(* variant: the deletions are handed to the builder as inline additions *)
BuildPayload_DeletionsAsFiles(awm, dels, a) ==
    prepare_commit_payload(
        awm \o [i \in 1..Len(dels) |-> <<dels[i], "inline">>], <<>>,
        a.commit_message, "", a.parent_commit)

(* variant: the builder is handed the additions without their modes *)
BuildPayload_AllInline(awm, dels, a) ==
    prepare_commit_payload([i \in 1..Len(awm) |-> <<awm[i][1], "inline">>],
                           dels, a.commit_message, "", a.parent_commit)

(* commit_payload = prepare_commit_payload(additions=..., deletions=...,   *)
(* commit_message=..., commit_description=..., parent_commit=...)          *)
BuildPayload(awm, dels, a) ==
    prepare_commit_payload(awm, dels, a.commit_message, "", a.parent_commit)

(* the decision of the classifier for one file: its upload mode and        *)
(* whether the hub already holds the blob (only asked for LFS files)       *)
Decision(mode, exists) == [uploadMode |-> mode, alreadyExists |-> exists]
Decisions == {Decision("inline", FALSE), Decision("lfs", FALSE),
              Decision("lfs", TRUE)}

(* fetch_upload_modes: the result pairs every addition with its mode *)
fetch_upload_modes(adds, decisions) ==
    [i \in 1..Len(adds) |-> <<adds[i], decisions[i].uploadMode>>]

(* the LFS files, numbered in classifier order, that the hub already holds *)
AlreadyExists(decisions) ==
    LET lfs == SelectSeq(decisions, LAMBDA d : d.uploadMode = "lfs")
    IN  {k \in 1..Len(lfs) : lfs[k].alreadyExists}

(* ---------------- requests ---------------- *)
WhoamiRequest(tok) == [kind |-> "whoami", token |-> tok]
PreuploadRequest(adds, tok) ==
    [kind |-> "preupload", token |-> tok,
     paths |-> [i \in 1..Len(adds) |-> adds[i].path]]
LfsRequest(i, op, tok) ==
    [kind |-> "lfs", token |-> tok, index |-> i, path |-> op.path]
(* f"{self.endpoint}/api/{repo_type}s/{repo_id}/commit/{revision}" *)
CommitUrl(repo_type, rev) ==
    <<ENDPOINT, "/api/", repo_type, "s/", RepoId, "/commit/">> \o rev
(* variant: the create_pr parameter is never sent *)
CommitParams_Never(cpr) == None

(* params={"create_pr": "1"} if create_pr else None *)
CommitParams(cpr) == IF cpr THEN Some(<<"create_pr", "1">>) ELSE None
CommitRequest(tok, repo_type, rev, cpr) ==
    [kind |-> "commit", method |-> "POST", token |-> tok,
     url |-> CommitUrl(repo_type, rev), params |-> CommitParams(cpr)]
Response(kind, status) == [kind |-> kind, status |-> status]
(* the answer to the commit request, with the pullRequestUrl of its body *)
CommitResponseRecord(status, pr_url) ==
    [kind |-> "commit", status |-> status, pullRequestUrl |-> pr_url]

(* ---------------- the convenience wrappers ---------------- *)
Last(s) == s[Len(s)]

(* REPO_TYPES_URL_PREFIXES[repo_type] when repo_type is one of its keys *)
RepoUrlPrefix(repo_type) ==
    IF repo_type = Some("dataset") THEN <<"datasets/">>
    ELSE IF repo_type = Some("space") THEN <<"spaces/">>
    ELSE <<>>

Digits == {"0", "1", "2", "3", "4", "5", "6", "7", "8", "9"}
(* variant: every URL is taken for the URL of a pull request *)
REGEX_DISCUSSION_URL_match_Any(url) == TRUE

(* re.match(_REGEX_DISCUSSION_URL, pr_url): ".*/discussions/(\d+)$" *)
REGEX_DISCUSSION_URL_match(url) ==
    /\ Len(url) >= 2
    /\ url[Len(url) - 1] = "/discussions/"
    /\ Last(url) \in Digits

(* _parse_revision_from_pr_url: f"refs/pr/{re_match[1]}" *)
parse_revision_from_pr_url(url) == <<"refs", "/", "pr", "/", Last(url)>>

(* variant: an empty message is replaced by the default as well *)
MessageOrDefault_OrEmpty(verb, path, msg) ==
    IF IsNone(msg) \/ msg = Some(<<>>)
    THEN Some(<<verb>> \o path \o <<" with huggingface_hub">>)
    ELSE msg

(* f"{verb} {path_in_repo} with huggingface_hub" unless a message is given *)
MessageOrDefault(verb, path, msg) ==
    IF IsNone(msg) THEN Some(<<verb>> \o path \o <<" with huggingface_hub">>)
    ELSE msg

(* the revision segment of the URL returned by upload_file / upload_folder *)
UrlRevision(rev, pr_url) ==
    IF ~IsNone(pr_url) THEN quote(parse_revision_from_pr_url(Val(pr_url)))
    ELSE IF IsNone(rev) THEN DEFAULT_REVISION
    ELSE Val(rev)

(* variant: the repo type prefix is left out *)
DisplayUrl_NoPrefix(view, c, pr_url) ==
    <<ENDPOINT, "/">> \o <<RepoId, view>>
      \o UrlRevision(c.revision, pr_url) \o <<"/">>
      \o (IF IsNone(c.path_in_repo) THEN <<>> ELSE Val(c.path_in_repo))

(* f"{self.endpoint}/{repo_id}/{view}/{revision}/{path_in_repo}" *)
DisplayUrl(view, c, pr_url) ==
    <<ENDPOINT, "/">> \o RepoUrlPrefix(c.repo_type) \o <<RepoId, view>>
      \o UrlRevision(c.revision, pr_url) \o <<"/">>
      \o (IF IsNone(c.path_in_repo) THEN <<>> ELSE Val(c.path_in_repo))

(* what the called method does with the result of create_commit: the value *)
(* it returns, or the exception it raises                                  *)
WrapperOutcome(method, class, c, pr_url) ==
    IF method \in {"upload_file", "upload_folder"}
    THEN IF ~IsNone(pr_url) /\ ~REGEX_DISCUSSION_URL_match(Val(pr_url))
         THEN [exc |-> Raise("RuntimeError", "pr_url"), value |-> None]
         ELSE [exc |-> NoExc,
               value |-> Some(DisplayUrl(IF method = "upload_file"
                                         THEN "/blob/" ELSE "/tree/",
                                         c, pr_url))]
    ELSE IF method = "delete_file" /\ class = "sync"
    THEN [exc |-> NoExc, value |-> None]
    ELSE [exc |-> NoExc, value |-> pr_url]

(* ---------------- the folder walk ---------------- *)
Folders == {"missing", "notes.txt", "model_dir", "tree"}
(* os.path.isdir(folder_path) *)
isdir(folder_path) == folder_path \in {"model_dir", "tree"}
(* os.walk(folder_path): the regular files below the folder, relative to   *)
(* it, their components separated by os.sep                                *)
walk(folder_path) ==
    IF folder_path = "model_dir"
    THEN << <<"a", ".bin">>, <<"a", ".txt">> >>
    ELSE IF folder_path = "tree"
    THEN << <<"c", ".txt">>, <<"sub", "os.sep", "b", ".bin">> >>
    ELSE <<>>

IsSep(c) == c \in {"/", "os.sep"}
(* os.path.join(a, b) *)
join(a, b) ==
    IF a = <<>> THEN b
    ELSE IF IsSep(Last(a)) THEN a \o b
    ELSE a \o <<"os.sep">> \o b

RECURSIVE Collapse(_)
Collapse(p) ==
    IF Len(p) <= 1 THEN p
    ELSE IF p[1] = "os.sep" /\ p[2] = "os.sep" THEN Collapse(Tail(p))
    ELSE <<p[1]>> \o Collapse(Tail(p))
(* os.path.normpath(p): separators become os.sep, repeated ones collapse *)
normpath(p) == Collapse([i \in 1..Len(p) |-> IF IsSep(p[i]) THEN "os.sep" ELSE p[i]])

(* variant: the separators of the local path are kept *)
PathInRepo_NoReplace(prefix, rel_path) == normpath(join(prefix, rel_path))

(* os.path.normpath(os.path.join(path_in_repo, rel_path)).replace(os.sep, "/") *)
PathInRepo(prefix, rel_path) ==
    LET p == normpath(join(prefix, rel_path))
    IN  [i \in 1..Len(p) |-> IF p[i] = "os.sep" THEN "/" ELSE p[i]]

(* CommitOperationAdd(path_or_fileobj=abs_path, path_in_repo=...) *)
WalkedFile(prefix, rel_path) ==
    [kind |-> "add", path |-> PathInRepo(prefix, rel_path),
     content |-> "bytes", local |-> rel_path]

(* fnmatch(path, pattern): "*" stands for any run of characters *)
RECURSIVE fnmatch(_, _)
fnmatch(path, pattern) ==
    IF pattern = <<>> THEN path = <<>>
    ELSE IF Head(pattern) = "*"
    THEN \/ fnmatch(path, Tail(pattern))
         \/ path # <<>> /\ fnmatch(Tail(path), pattern)
    ELSE /\ path # <<>>
         /\ Head(path) = Head(pattern)
         /\ fnmatch(Tail(path), Tail(pattern))

AnyMatch(path, patterns) ==
    \E k \in DOMAIN patterns : fnmatch(path, patterns[k])

(* variant: the patterns are tested on the local path *)
FilterKey_LocalPath(op) == op.local

(* key=lambda x: x.path_in_repo *)
FilterKey(op) == op.path

(* filter_repo_objects(items, allow_patterns, ignore_patterns, key) *)
filter_repo_objects(items, allow_patterns, ignore_patterns) ==
    SelectSeq(items, LAMBDA op :
        /\ IsNone(allow_patterns) \/ AnyMatch(FilterKey(op), Val(allow_patterns))
        /\ IsNone(ignore_patterns)
              \/ ~AnyMatch(FilterKey(op), Val(ignore_patterns)))

(* variant: the folder is not checked *)
PrepareError_NoCheck(folder_path) == "ok"

(* if not os.path.isdir(folder_path): raise ValueError *)
PrepareError(folder_path) ==
    IF ~isdir(folder_path) THEN "not_a_directory" ELSE "ok"

(* _prepare_upload_folder_commit, once the folder has passed the check *)
prepare_upload_folder_commit(folder_path, prefix, allow, ignore) ==
    LET rel == walk(folder_path)
        files_to_add == [i \in 1..Len(rel) |-> WalkedFile(prefix, rel[i])]
    IN  filter_repo_objects(files_to_add, allow, ignore)

(* ---------------- arguments of the wrappers ---------------- *)
FilePaths == {<<"a", ".bin">>, <<"sub", "/", "b", ".txt">>}
Prefixes == {None, Some(<<"ckpt">>)}
AllowPatterns == {None, Some(<< <<"*", ".bin">> >>),
                  Some(<< <<"ckpt", "/", "*">> >>)}
IgnorePatterns == {None, Some(<< <<"*", ".txt">> >>),
                   Some(<< <<"sub", "/", "*">> >>)}
ApiRevisions == {None, Some(<<"feature-x">>),
                 Some(<<"refs", "/", "pr", "/", "1">>)}
ApiCreatePr == {None, Some(TRUE)}
Facades == {"async", "sync"}

NoCall == [path_in_repo |-> None, content |-> "none", folder_path |-> "none",
           allow_patterns |-> None, ignore_patterns |-> None,
           commit_message |-> None, token |-> None, repo_type |-> None,
           revision |-> None, create_pr |-> None, parent_commit |-> None]

UploadFileCalls ==
    [path_in_repo : {Some(p) : p \in FilePaths}, content : {"bytes", "nofile"},
     folder_path : {"none"}, allow_patterns : {None},
     ignore_patterns : {None}, commit_message : Messages, token : Tokens,
     repo_type : RepoTypeArgs, revision : ApiRevisions,
     create_pr : ApiCreatePr, parent_commit : {None}]

DeleteFileCalls ==
    [path_in_repo : {Some(p) : p \in FilePaths}, content : {"none"},
     folder_path : {"none"}, allow_patterns : {None},
     ignore_patterns : {None}, commit_message : Messages, token : Tokens,
     repo_type : RepoTypeArgs, revision : ApiRevisions,
     create_pr : ApiCreatePr, parent_commit : {None}]

UploadFolderCalls ==
    [path_in_repo : Prefixes, content : {"none"}, folder_path : Folders,
     allow_patterns : AllowPatterns, ignore_patterns : IgnorePatterns,
     commit_message : Messages, token : Tokens, repo_type : RepoTypeArgs,
     revision : ApiRevisions, create_pr : ApiCreatePr,
     parent_commit : {None}]

ListRepoFilesCalls ==
    [path_in_repo : {None}, content : {"none"}, folder_path : {"none"},
     allow_patterns : {None}, ignore_patterns : {None},
     commit_message : {None}, token : Tokens, repo_type : RepoTypeArgs,
     revision : ApiRevisions, create_pr : {None}, parent_commit : {None}]

ApiCommitCalls ==
    [operations : {<<OpAdd("a")>>, <<OpDelete("a"), OpAdd("b")>>},
     commit_message : {Some(<<"Update">>)}, token : {Some(<<"hf_", "user">>)},
     repo_type : {None}, revision : {None}, create_pr : ApiCreatePr,
     num_threads : {1, DEFAULT_NUM_THREADS}, parent_commit : {None}]

(* the arguments a wrapper hands to create_commit *)
ToArgs(c, operations, message) ==
    [operations |-> operations, commit_message |-> message,
     token |-> c.token, repo_type |-> c.repo_type, revision |-> c.revision,
     create_pr |-> c.create_pr, num_threads |-> DEFAULT_NUM_THREADS,
     parent_commit |-> c.parent_commit]

(* the arguments the method of the class hands on to AsyncHfApi:           *)
(* HfApi.list_repo_files hands on repo_id only                             *)
Forwarded(method, class, c) ==
    IF method = "list_repo_files" /\ class = "sync"
    THEN [c EXCEPT !.revision = None, !.repo_type = None, !.token = None]
    ELSE c

(* model_info / dataset_info / space_info: the GET request of repo_info    *)
RepoInfoUrl(repo_type, rev) ==
    <<ENDPOINT, "/api/", repo_type, "s/", RepoId>>
      \o (IF IsNone(rev) THEN <<>> ELSE <<"/revision/">> \o quote(Val(rev)))
(* _build_auth_headers with use_auth_token=None *)
AuthToken(tok) == IF IsNone(tok) THEN saved_token ELSE tok
RepoInfoRequest(c) ==
    [kind |-> "repo_info", method |-> "GET",
     url |-> RepoInfoUrl(Val(RepoTypeOrDefault(c.repo_type)), c.revision),
     token |-> AuthToken(c.token)]
(* [f.rfilename for f in repo_info.siblings] *)
Siblings == << <<"README", ".md">>, <<"a", ".bin">> >>

(* ---------------- concurrent invocations ---------------- *)
Callers == {1, 2}
Other(p) == IF p = 1 THEN 2 ELSE 1

(* the branches of the repository and the commit they point to at first *)
Branches == {<<"main">>, <<"feature-x">>}
HeadOid == ShortOid

(* the local variables of an invocation that has not begun *)
FreshLocals ==
    [pc |-> "idle", args |-> NoArgs, token |-> None, revision |-> <<>>,
     create_pr |-> FALSE, additions |-> <<>>, deletions |-> <<>>,
     additions_with_upload_mode |-> <<>>, lfs_additions |-> <<>>,
     lfs_exists |-> {}, lfs_pending |-> <<>>, lfs_inflight |-> {},
     lfs_done |-> {}, lfs_failed |-> {}, commit_payload |-> <<>>,
     requests |-> <<>>, responses |-> <<>>, exc |-> NoExc, result |-> None,
     returned |-> None]

(* ---------------- the discussions of a repository ---------------- *)
(* no iteration has begun: the hub's listing is not yet chosen *)
NoHub == [count |-> 0, size |-> 0, offset |-> 0]

(* ---------------- state ---------------- *)
Init ==
    /\ pc = "idle"
    /\ args = NoArgs
    /\ saved_token \in {None, Some(<<"hf_", "saved">>)}
    /\ token = None
    /\ revision = <<>>
    /\ create_pr = FALSE
    /\ additions = <<>>
    /\ deletions = <<>>
    /\ additions_with_upload_mode = <<>>
    /\ lfs_additions = <<>>
    /\ lfs_exists = {}
    /\ lfs_pending = <<>>
    /\ lfs_inflight = {}
    /\ lfs_done = {}
    /\ lfs_failed = {}
    /\ commit_payload = <<>>
    /\ requests = <<>>
    /\ responses = <<>>
    /\ exc = NoExc
    /\ result = None
    /\ api = "none"
    /\ facade = "async"
    /\ call = NoCall
    /\ walked = FALSE
    /\ credential_store = None
    /\ returned = None
    /\ self = 1
    /\ parked = None
    /\ head = [b \in Branches |-> HeadOid]
    /\ answers = [p \in Callers |-> None]
    /\ applied = <<>>
    /\ gen = "none"
    /\ page_index = 0
    /\ has_next = TRUE
    /\ discussions = <<>>
    /\ yielded = <<>>
    /\ page_requests = <<>>
    /\ pages = <<>>
    /\ consumer = "none"
    /\ hub = NoHub

Raised(e) ==
    /\ pc' = "raised"
    /\ exc' = e

(* variant: the validated token is saved as the stored token *)
TokenFileAfterValidation_Save(file, tok) == IF IsNone(tok) THEN file ELSE tok

(* _validate_or_retrieve_token reads the stored token (HfFolder.get_token) *)
(* and never writes it: the token file after the call                      *)
TokenFileAfterValidation(file, tok) == file

(* the body of create_commit: lines 1516-1531 up to the whoami request of  *)
(* _validate_or_retrieve_token                                             *)
EnterCreateCommit(a) ==
    /\ args' = a
    /\ revision' = <<>>
    /\ create_pr' = FALSE
    /\ additions' = <<>>
    /\ deletions' = <<>>
    /\ additions_with_upload_mode' = <<>>
    /\ lfs_additions' = <<>>
    /\ lfs_exists' = {}
    /\ lfs_pending' = <<>>
    /\ lfs_inflight' = {}
    /\ lfs_done' = {}
    /\ lfs_failed' = {}
    /\ commit_payload' = <<>>
    /\ result' = None
    /\ responses' = <<>>
    /\ saved_token' = TokenFileAfterValidation(saved_token, a.token)
    /\ LET tok == RetrieveToken(a.token) IN
       IF ArgumentError(a) # "ok"
       THEN /\ Raised(Raise("ValueError", ArgumentError(a)))
            /\ token' = None
            /\ requests' = <<>>
       ELSE IF IsNone(tok)
       THEN /\ Raised(Raise("EnvironmentError", "no_token"))
            /\ token' = None
            /\ requests' = <<>>
       ELSE IF startswith(Val(tok), "api_org")
       THEN /\ Raised(Raise("ValueError", "organization_token"))
            /\ token' = None
            /\ requests' = <<>>
       ELSE /\ pc' = "whoami"
            /\ exc' = NoExc
            /\ token' = tok
            /\ requests' = <<WhoamiRequest(tok)>>

(* AsyncHfApi.create_commit is called *)
CreateCommit(a) ==
    /\ pc = "idle"
    /\ api' = "create_commit"
    /\ facade' = "async"
    /\ call' = NoCall
    /\ walked' = FALSE
    /\ returned' = None
    /\ UNCHANGED <<credential_store, concvars, discvars>>
    /\ EnterCreateCommit(a)

(* the whoami response arrives: _is_valid_token, then lines 1532-1567 up   *)
(* to the classification request of fetch_upload_modes                     *)
WhoamiResponse(status) ==
    /\ pc = "whoami"
    /\ UNCHANGED <<apivars, returned>>
    /\ UNCHANGED <<args, saved_token, token, additions_with_upload_mode,
                   lfs_additions, lfs_exists, lfs_pending, lfs_inflight,
                   lfs_done, lfs_failed, commit_payload, result>>
    /\ responses' = Append(responses, Response("whoami", status))
    /\ LET rev == RevisionOrDefault(args.revision)
           cpr == CreatePrOrDefault(args.create_pr)
           err == OperationsError(cpr, rev, args.operations)
       IN
       IF status # 200
       THEN /\ Raised(Raise("ValueError", "invalid_token"))
            /\ UNCHANGED <<revision, create_pr, additions, deletions, requests>>
       ELSE /\ revision' = rev
            /\ create_pr' = cpr
            /\ IF err = "create_pr"
               THEN /\ Raised(Raise("ValueError", err))
                    /\ UNCHANGED <<additions, deletions, requests>>
               ELSE /\ additions' = Additions(args.operations)
                    /\ deletions' = Deletions(args.operations)
                    /\ IF err # "ok"
                       THEN /\ Raised(Raise("ValueError", err))
                            /\ UNCHANGED requests
                       ELSE /\ pc' = "classify"
                            /\ exc' = NoExc
                            /\ requests' = Append(requests,
                                  PreuploadRequest(additions', token))

(* variant: a failed classification request is issued once more *)
ClassifyResponse_Retry(status, decisions) ==
    /\ pc = "classify"
    /\ status # 200
    /\ responses' = Append(responses, Response("preupload", status))
    /\ requests' = Append(requests, PreuploadRequest(additions, token))
    /\ IF Len(requests) < 3 THEN pc' = pc /\ exc' = exc
       ELSE Raised(OnFetchError(StatusError(status, "preupload")))
    /\ UNCHANGED <<apivars, returned>>
    /\ UNCHANGED <<args, saved_token, token, revision, create_pr, additions,
                   deletions, additions_with_upload_mode, lfs_additions,
                   lfs_exists, lfs_pending, lfs_inflight, lfs_done,
                   lfs_failed, commit_payload, result>>

(* the classification response arrives: lines 1558-1586, entering          *)
(* upload_lfs_files                                                        *)
ClassifyResponse(status, decisions) ==
    /\ pc = "classify"
    /\ UNCHANGED <<apivars, returned>>
    /\ UNCHANGED <<args, saved_token, token, revision, create_pr, additions,
                   deletions, lfs_inflight, lfs_done, lfs_failed,
                   commit_payload, requests, result>>
    /\ responses' = Append(responses, Response("preupload", status))
    /\ LET err == StatusError(status, "preupload")
           prop == IF err = NoExc THEN NoExc ELSE OnFetchError(err)
           awm == IF err = NoExc THEN fetch_upload_modes(additions, decisions)
                  ELSE <<>>
       IN
       IF prop # NoExc
       THEN /\ Raised(prop)
            /\ UNCHANGED <<additions_with_upload_mode, lfs_additions,
                           lfs_exists, lfs_pending>>
       ELSE /\ pc' = "lfs"
            /\ exc' = NoExc
            /\ additions_with_upload_mode' = awm
            /\ lfs_additions' = LfsAdditions(awm)
            /\ lfs_exists' = AlreadyExists(decisions)
            /\ lfs_pending' = [i \in 1..Len(lfs_additions') |-> i]

(* a pool worker takes the next LFS file and starts its transfer *)
LfsStart ==
    /\ pc = "lfs"
    /\ lfs_pending # <<>>
    /\ Head(lfs_pending) \notin lfs_exists
    /\ Cardinality(lfs_inflight) < PoolSize(args.num_threads)
    /\ lfs_inflight' = lfs_inflight \cup {Head(lfs_pending)}
    /\ lfs_pending' = Tail(lfs_pending)
    /\ requests' = Append(requests,
          LfsRequest(Head(lfs_pending), lfs_additions[Head(lfs_pending)],
                     token))
    /\ UNCHANGED <<apivars, returned>>
    /\ UNCHANGED <<pc, args, saved_token, token, revision, create_pr,
                   additions, deletions, additions_with_upload_mode,
                   lfs_additions, lfs_exists, lfs_done, lfs_failed,
                   commit_payload, responses, exc, result>>

(* a pool worker takes the next LFS file and finds that the hub already    *)
(* holds its blob: the file is complete without any transfer               *)
LfsSkip ==
    /\ pc = "lfs"
    /\ lfs_pending # <<>>
    /\ Head(lfs_pending) \in lfs_exists
    /\ Cardinality(lfs_inflight) < PoolSize(args.num_threads)
    /\ lfs_done' = lfs_done \cup {Head(lfs_pending)}
    /\ lfs_pending' = Tail(lfs_pending)
    /\ UNCHANGED <<apivars, returned>>
    /\ UNCHANGED <<pc, args, saved_token, token, revision, create_pr,
                   additions, deletions, additions_with_upload_mode,
                   lfs_additions, lfs_exists, lfs_inflight, lfs_failed,
                   commit_payload, requests, responses, exc, result>>

(* the transfer of one file ends, successfully or not *)
LfsFinish(i, ok) ==
    /\ i \in lfs_inflight
    /\ lfs_inflight' = lfs_inflight \ {i}
    /\ lfs_done' = IF ok THEN lfs_done \cup {i} ELSE lfs_done
    /\ lfs_failed' = IF ok THEN lfs_failed ELSE lfs_failed \cup {i}
    /\ responses' = Append(responses,
                           Response("lfs", IF ok THEN 200 ELSE 500))
    /\ UNCHANGED <<apivars, returned>>
    /\ UNCHANGED <<pc, args, saved_token, token, revision, create_pr,
                   additions, deletions, additions_with_upload_mode,
                   lfs_additions, lfs_exists, lfs_pending, commit_payload,
                   requests, exc, result>>

(* upload_lfs_files returns or raises: lines 1587-1602, up to the commit   *)
(* request                                                                 *)
UploadReturns ==
    /\ CanBuildPayload
    /\ lfs_pending' = <<>>
    /\ UNCHANGED <<apivars, returned>>
    /\ UNCHANGED <<args, saved_token, token, revision, create_pr, additions,
                   deletions, additions_with_upload_mode, lfs_additions,
                   lfs_exists, lfs_inflight, lfs_done, lfs_failed, responses,
                   result>>
    /\ IF lfs_failed # {}
       THEN /\ Raised(Raise("UploadError", "lfs"))
            /\ UNCHANGED <<commit_payload, requests>>
       ELSE /\ pc' = "commit"
            /\ exc' = NoExc
            /\ commit_payload' =
                 BuildPayload(additions_with_upload_mode, deletions, args)
            /\ requests' = Append(requests,
                  CommitRequest(token, Val(RepoTypeOrDefault(args.repo_type)),
                                revision, create_pr))

(* the values of pullRequestUrl in an answer of the hub: absent, the URL   *)
(* of a discussion, or something else                                      *)
DiscussionUrl == <<"https://hub/user/repo", "/discussions/", "1">>
OtherUrl == <<"https://hub/user/repo", "/pull/", "1">>
PrUrls == {None, Some(DiscussionUrl), Some(OtherUrl)}

(* the hub opens a pull request, and names it in its answer, exactly when  *)
(* the request carries create_pr=1                                         *)
HubPrUrls(req) == IF IsNone(req.params) THEN {None} ELSE PrUrls \ {None}

(* variant: nothing is returned *)
ReturnValue_None(body) == None

(* return commit_resp.json().get("pullRequestUrl", None) *)
ReturnValue(body) == body.pullRequestUrl

(* the commit response arrives: lines 1603-1604 *)
CommitResponse(status, pr_url) ==
    /\ pc = "commit"
    /\ pr_url \in HubPrUrls(requests[Len(requests)])
    /\ UNCHANGED apivars
    /\ UNCHANGED <<args, saved_token, token, revision, create_pr, additions,
                   deletions, additions_with_upload_mode, lfs_additions,
                   lfs_exists, lfs_pending, lfs_inflight, lfs_done,
                   lfs_failed, commit_payload, requests>>
    /\ responses' = Append(responses, CommitResponseRecord(status, pr_url))
    /\ IF StatusError(status, "commit") # NoExc
       THEN /\ Raised(StatusError(status, "commit"))
            /\ UNCHANGED <<result, returned>>
       ELSE /\ result' = ReturnValue(responses'[Len(responses')])
            /\ LET out == WrapperOutcome(api, facade, call, result') IN
               IF out.exc # NoExc
               THEN /\ Raised(out.exc)
                    /\ UNCHANGED returned
               ELSE /\ pc' = "done"
                    /\ exc' = NoExc
                    /\ returned' = out.value

Modes(n) == [1..n -> Decisions]

Next ==
    \/ pc = "idle" /\ \E a \in CallArgs : CreateCommit(a)
    \/ \E status \in Statuses : WhoamiResponse(status)
    \/ \E status \in Statuses, decisions \in Modes(Len(additions)) :
          ClassifyResponse(status, decisions)
    \/ LfsStart
    \/ LfsSkip
    \/ \E i \in lfs_inflight, ok \in BOOLEAN : LfsFinish(i, ok)
    \/ UploadReturns
    \/ \E status \in Statuses, pr_url \in PrUrls : CommitResponse(status, pr_url)

Spec == Init /\ [][Next]_vars

(* ---------------- the methods of AsyncHfApi and HfApi ---------------- *)
(* an exception raised before create_commit is entered *)
RaiseLocally(e) ==
    /\ Raised(e)
    /\ args' = NoArgs
    /\ token' = None
    /\ revision' = <<>>
    /\ create_pr' = FALSE
    /\ additions' = <<>>
    /\ deletions' = <<>>
    /\ additions_with_upload_mode' = <<>>
    /\ lfs_additions' = <<>>
    /\ lfs_exists' = {}
    /\ lfs_pending' = <<>>
    /\ lfs_inflight' = {}
    /\ lfs_done' = {}
    /\ lfs_failed' = {}
    /\ commit_payload' = <<>>
    /\ requests' = <<>>
    /\ responses' = <<>>
    /\ result' = None
    /\ UNCHANGED saved_token

Called(method, class, c) ==
    /\ pc = "idle"
    /\ api' = method
    /\ facade' = class
    /\ call' = c
    /\ returned' = None
    /\ UNCHANGED <<credential_store, concvars, discvars>>

(* create_commit through either class *)
ApiCreateCommit(class, a) ==
    /\ Called("create_commit", class, NoCall)
    /\ walked' = FALSE
    /\ EnterCreateCommit(a)

(* upload_file: async_hf_api.py lines 1733-1756, up to create_commit *)
UploadFile(class, c) ==
    /\ Called("upload_file", class, c)
    /\ walked' = FALSE
    /\ IF c.repo_type \notin REPO_TYPES
       THEN RaiseLocally(Raise("ValueError", "repo_type"))
       ELSE EnterCreateCommit(ToArgs(c,
              <<[kind |-> "add", path |-> Val(c.path_in_repo),
                 content |-> c.content]>>,
              MessageOrDefault("Upload ", Val(c.path_in_repo),
                               c.commit_message)))

(* upload_folder: async_hf_api.py lines 1886-1916, up to create_commit *)
UploadFolder(class, c) ==
    /\ Called("upload_folder", class, c)
    /\ LET prefix == IF IsNone(c.path_in_repo) THEN <<>>
                     ELSE Val(c.path_in_repo)
       IN
       IF c.repo_type \notin REPO_TYPES
       THEN /\ RaiseLocally(Raise("ValueError", "repo_type"))
            /\ walked' = FALSE
       ELSE IF PrepareError(c.folder_path) # "ok"
       THEN /\ RaiseLocally(Raise("ValueError", PrepareError(c.folder_path)))
            /\ walked' = FALSE
       ELSE /\ walked' = TRUE
            /\ EnterCreateCommit(ToArgs(c,
                 prepare_upload_folder_commit(c.folder_path, prefix,
                     c.allow_patterns, c.ignore_patterns),
                 MessageOrDefault("Upload ", prefix, c.commit_message)))

(* delete_file: async_hf_api.py lines 1994-2012, up to create_commit *)
DeleteFile(class, c) ==
    /\ Called("delete_file", class, c)
    /\ walked' = FALSE
    /\ EnterCreateCommit(ToArgs(c,
         <<[kind |-> "delete", path |-> Val(c.path_in_repo),
            content |-> "none"]>>,
         MessageOrDefault("Delete ", Val(c.path_in_repo), c.commit_message)))

(* list_repo_files: repo_info up to its GET request *)
ListRepoFiles(class, c) ==
    /\ Called("list_repo_files", class, c)
    /\ walked' = FALSE
    /\ LET fw == Forwarded("list_repo_files", class, c) IN
       IF RepoTypeOrDefault(fw.repo_type) \notin REPO_TYPES
       THEN RaiseLocally(Raise("ValueError", "repo_type"))
       ELSE /\ pc' = "repo_info"
            /\ exc' = NoExc
            /\ requests' = <<RepoInfoRequest(fw)>>
            /\ responses' = <<>>
            /\ UNCHANGED <<args, saved_token, token, revision, create_pr,
                           additions, deletions, additions_with_upload_mode,
                           lfs_additions, lfs_exists, lfs_pending,
                           lfs_inflight, lfs_done, lfs_failed,
                           commit_payload, result>>

(* the answer to the GET request of repo_info arrives *)
RepoInfoResponse(status) ==
    /\ pc = "repo_info"
    /\ responses' = Append(responses, Response("repo_info", status))
    /\ IF StatusError(status, "repo_info") # NoExc
       THEN /\ Raised(StatusError(status, "repo_info"))
            /\ UNCHANGED returned
       ELSE /\ pc' = "done"
            /\ exc' = NoExc
            /\ returned' = Some(Siblings)
    /\ UNCHANGED <<apivars, args, saved_token, token, revision, create_pr,
                   additions, deletions, additions_with_upload_mode,
                   lfs_additions, lfs_exists, lfs_pending, lfs_inflight,
                   lfs_done, lfs_failed, commit_payload, requests, result>>

(* the caller has the result or the exception: the call is over *)
Return ==
    /\ pc \in {"done", "raised"}
    /\ pc' = "idle"
    /\ exc' = NoExc
    /\ args' = NoArgs
    /\ token' = None
    /\ revision' = <<>>
    /\ create_pr' = FALSE
    /\ additions' = <<>>
    /\ deletions' = <<>>
    /\ additions_with_upload_mode' = <<>>
    /\ lfs_additions' = <<>>
    /\ lfs_exists' = {}
    /\ lfs_pending' = <<>>
    /\ lfs_inflight' = {}
    /\ lfs_done' = {}
    /\ lfs_failed' = {}
    /\ commit_payload' = <<>>
    /\ requests' = <<>>
    /\ responses' = <<>>
    /\ result' = None
    /\ api' = "none"
    /\ facade' = "async"
    /\ call' = NoCall
    /\ walked' = FALSE
    /\ returned' = None
    /\ UNCHANGED <<saved_token, credential_store, concvars, discvars>>

pipeline == <<pc, args, token, revision, create_pr, additions, deletions,
              additions_with_upload_mode, lfs_additions, lfs_exists,
              lfs_pending, lfs_inflight, lfs_done, lfs_failed,
              commit_payload, requests, responses, exc, result, api, facade,
              call, walked, returned, concvars, discvars>>

AccessTokens == {<<"hf_", "saved">>}

(* set_access_token: write_to_credential_store(USERNAME_PLACEHOLDER, token) *)
SetAccessToken(t) ==
    /\ pc = "idle"
    /\ credential_store' = Some(t)
    /\ UNCHANGED <<pipeline, saved_token>>

(* unset_access_token: erase_from_credential_store(USERNAME_PLACEHOLDER) *)
UnsetAccessToken ==
    /\ pc = "idle"
    /\ credential_store' = None
    /\ UNCHANGED <<pipeline, saved_token>>

(* HfFolder.save_token(token) *)
SaveToken(t) ==
    /\ pc = "idle"
    /\ saved_token' = Some(t)
    /\ UNCHANGED <<pipeline, credential_store>>

(* HfFolder.delete_token() *)
DeleteToken ==
    /\ pc = "idle"
    /\ saved_token' = None
    /\ UNCHANGED <<pipeline, credential_store>>

ApiNext ==
    \/ pc = "idle" /\ \E class \in Facades, a \in ApiCommitCalls :
          ApiCreateCommit(class, a)
    \/ pc = "idle" /\ \E class \in Facades, c \in UploadFileCalls :
          UploadFile(class, c)
    \/ pc = "idle" /\ \E class \in Facades, c \in UploadFolderCalls :
          UploadFolder(class, c)
    \/ pc = "idle" /\ \E class \in Facades, c \in DeleteFileCalls :
          DeleteFile(class, c)
    \/ pc = "idle" /\ \E class \in Facades, c \in ListRepoFilesCalls :
          ListRepoFiles(class, c)
    \/ \E status \in Statuses : RepoInfoResponse(status)
    \/ \E status \in Statuses : WhoamiResponse(status)
    \/ \E status \in Statuses, decisions \in Modes(Len(additions)) :
          ClassifyResponse(status, decisions)
    \/ LfsStart
    \/ LfsSkip
    \/ \E i \in lfs_inflight, ok \in BOOLEAN : LfsFinish(i, ok)
    \/ UploadReturns
    \/ \E status \in Statuses, pr_url \in PrUrls : CommitResponse(status, pr_url)
    \/ Return
    \/ \E t \in AccessTokens : SetAccessToken(t)
    \/ UnsetAccessToken
    \/ \E t \in AccessTokens : SaveToken(t)
    \/ DeleteToken

ApiSpec == Init /\ [][ApiNext]_vars

(* ---------------- two invocations against one hub ---------------- *)
(* the local variables of the running invocation *)
Locals ==
    [pc |-> pc, args |-> args, token |-> token, revision |-> revision,
     create_pr |-> create_pr, additions |-> additions,
     deletions |-> deletions,
     additions_with_upload_mode |-> additions_with_upload_mode,
     lfs_additions |-> lfs_additions, lfs_exists |-> lfs_exists,
     lfs_pending |-> lfs_pending, lfs_inflight |-> lfs_inflight,
     lfs_done |-> lfs_done, lfs_failed |-> lfs_failed,
     commit_payload |-> commit_payload, requests |-> requests,
     responses |-> responses, exc |-> exc, result |-> result,
     returned |-> returned]

(* the local variables of the suspended invocation, which may not have     *)
(* begun                                                                   *)
Suspended == IF IsNone(parked) THEN FreshLocals ELSE Val(parked)

(* variant: the token is kept on the API object, which both invocations    *)
(* use, instead of in a local variable                                     *)
Resumed_SharedToken(l) == [l EXCEPT !.token = token]

(* every name create_commit assigns (lines 1516-1604) is a parameter or a  *)
(* local of the call: a suspended invocation resumes with the values it    *)
(* was suspended with                                                      *)
Resumed(l) == l

Restore(l) ==
    /\ pc' = l.pc
    /\ args' = l.args
    /\ token' = l.token
    /\ revision' = l.revision
    /\ create_pr' = l.create_pr
    /\ additions' = l.additions
    /\ deletions' = l.deletions
    /\ additions_with_upload_mode' = l.additions_with_upload_mode
    /\ lfs_additions' = l.lfs_additions
    /\ lfs_exists' = l.lfs_exists
    /\ lfs_pending' = l.lfs_pending
    /\ lfs_inflight' = l.lfs_inflight
    /\ lfs_done' = l.lfs_done
    /\ lfs_failed' = l.lfs_failed
    /\ commit_payload' = l.commit_payload
    /\ requests' = l.requests
    /\ responses' = l.responses
    /\ exc' = l.exc
    /\ result' = l.result
    /\ returned' = l.returned

(* the event loop (or the thread scheduler) suspends the running           *)
(* invocation and resumes the other one                                    *)
Switch ==
    /\ pc # "idle" \/ Suspended.pc # "idle"
    /\ self' = Other(self)
    /\ parked' = Some(Locals)
    /\ Restore(Resumed(Suspended))
    /\ UNCHANGED <<saved_token, api, facade, call, walked, credential_store,
                   head, answers, applied, discvars>>

(* the branch a commit request addresses: the revision of its URL *)
BranchOf(req) == SubSeq(req.url, 7, Len(req.url))
(* the commit the hub creates for an invocation *)
NewOid(p) == IF p = 1 THEN <<"c", "1">> ELSE <<"c", "2">>

(* parent_commit docstring (lines 1481-1487): "If specified and create_pr  *)
(* is False, the commit will fail if revision does not point to            *)
(* parent_commit"                                                          *)
Stale(req, header) ==
    /\ IsNone(req.params)
    /\ ~IsNone(header.parentCommit)
    /\ Val(header.parentCommit) # head[BranchOf(req)]

(* the hub handles the commit request of the running invocation: it        *)
(* refuses it, or applies it to the branch, or opens a pull request        *)
HubCommit(status) ==
    /\ pc = "commit"
    /\ IsNone(answers[self])
    /\ LET req == Last(requests)
           header == commit_payload[1]
       IN
       /\ Stale(req, header) => status # 200
       /\ answers' = [answers EXCEPT ![self] = Some(status)]
       /\ IF status = 200
          THEN /\ applied' = Append(applied,
                     [caller |-> self, branch |-> BranchOf(req),
                      parent |-> header.parentCommit,
                      base |-> head[BranchOf(req)],
                      pr |-> ~IsNone(req.params)])
               /\ head' = IF IsNone(req.params)
                          THEN [head EXCEPT ![BranchOf(req)] = NewOid(self)]
                          ELSE head
          ELSE UNCHANGED <<applied, head>>
    /\ UNCHANGED <<pc, args, saved_token, token, revision, create_pr,
                   additions, deletions, additions_with_upload_mode,
                   lfs_additions, lfs_exists, lfs_pending, lfs_inflight,
                   lfs_done, lfs_failed, commit_payload, requests, responses,
                   exc, result, returned>>
    /\ UNCHANGED <<api, facade, call, walked, credential_store, self, parked,
                   discvars>>

(* the answer of the hub reaches the running invocation *)
HubCommitResponse(pr_url) ==
    /\ pc = "commit"
    /\ ~IsNone(answers[self])
    /\ CommitResponse(Val(answers[self]), pr_url)

(* the calls of the two invocations *)
ConcOperations == {<<OpAdd("b"), OpDelete("a")>>}
ConcArgs ==
    [operations : ConcOperations, commit_message : {Some(<<"Update">>)},
     token : {Some(<<"hf_", "user">>)}, repo_type : {None},
     revision : {None}, create_pr : {None, Some(TRUE)},
     num_threads : {DEFAULT_NUM_THREADS},
     parent_commit : {None, Some(ShortOid), Some(FullOid)}]
    \cup
    [operations : ConcOperations, commit_message : {Some(<<"Update">>)},
     token : {None, Some(<<"hf_", "user">>)}, repo_type : {None},
     revision : {None, Some(<<"feature-x">>)}, create_pr : {None},
     num_threads : {DEFAULT_NUM_THREADS}, parent_commit : {Some(ShortOid)}]

ConcNext ==
    \/ pc = "idle" /\ \E a \in ConcArgs : CreateCommit(a)
    \/ \E status \in Statuses : WhoamiResponse(status)
    \/ \E status \in Statuses, decisions \in Modes(Len(additions)) :
          ClassifyResponse(status, decisions)
    \/ LfsStart
    \/ LfsSkip
    \/ \E i \in lfs_inflight, ok \in BOOLEAN : LfsFinish(i, ok)
    \/ UploadReturns
    \/ \E status \in Statuses : HubCommit(status)
    \/ \E pr_url \in PrUrls : HubCommitResponse(pr_url)
    \/ Switch

ConcSpec == Init /\ [][ConcNext]_vars

(* ---------------- get_repo_discussions ---------------- *)
(* everything but the iteration over the discussions and the call that     *)
(* began it                                                                *)
commitvars == <<pc, args, saved_token, token, revision, create_pr, additions,
                deletions, additions_with_upload_mode, lfs_additions,
                lfs_exists, lfs_pending, lfs_inflight, lfs_done, lfs_failed,
                commit_payload, requests, responses, exc, result, returned,
                walked, credential_store, concvars>>

(* the hub's listing: count discussions numbered 1..count, served size to  *)
(* a page; offset is added to the start the hub reports                    *)
Hubs == [count : 0..MaxCount, size : 0..MaxPageSize, offset : {0, 1}]
Min(a, b) == IF a < b THEN a ELSE b
(* the JSON body of page p: {"count", "start", "discussions"} *)
HubPage(h, p) ==
    [count |-> h.count, start |-> p * h.size + h.offset,
     discussions |->
        [i \in 1..(Min(h.count, (p + 1) * h.size) - p * h.size) |->
            [num |-> p * h.size + i]]]

DiscussionCalls ==
    {[NoCall EXCEPT !.repo_type = rt, !.token = t] :
        rt \in RepoTypeArgs, t \in {None, Some(<<"hf_", "user">>)}}

(* path = f"{self.endpoint}/api/{repo_id}/discussions?p={page_index}" *)
PageRequest(repo_type, p, tok) ==
    [kind |-> "discussions", method |-> "GET",
     url |-> <<ENDPOINT, "/api/", repo_type, "s/", RepoId, "/discussions">>,
     p |-> p, token |-> tok]

(* Discussion(num=discussion["num"], ...) *)
Discussion(d) == [type |-> "Discussion", num |-> d.num]

(* variant: the last page is the one that reaches past the count *)
HasNext_Inclusive(start, n, total) == start + n <= total

(* has_next = (start + len(discussions)) < total *)
HasNext(start, n, total) == start + n < total

(* variant: the next page is asked while a discussion is still to hand out *)
Exhausted_Prefetch(rest) == Len(rest) <= 1

(* for discussion in discussions: the loop has handed out every discussion *)
Exhausted(rest) == rest = <<>>

(* get_next of iter_over_async: (done, obj) for one step of the generator, *)
(* where item is None at StopAsyncIteration                                *)
get_next(item) == IF IsNone(item) THEN <<TRUE, None>> ELSE <<FALSE, item>>
(* what the consumer of the iterator of the class is handed for item *)
Handed(class, item) ==
    IF class = "sync"
    THEN (IF get_next(item)[1] THEN None ELSE get_next(item)[2])
    ELSE item

(* get_repo_discussions is called: an iterator is returned and nothing of  *)
(* the body has run                                                        *)
GetRepoDiscussions(class, c, h) ==
    /\ gen = "none"
    /\ gen' = "created"
    /\ api' = "get_repo_discussions"
    /\ facade' = class
    /\ call' = c
    /\ hub' = h
    /\ consumer' = "iterating"
    /\ UNCHANGED <<page_index, has_next, discussions, yielded,
                   page_requests, pages, commitvars>>

(* page_index = page_index + 1, then the test of while has_next: the next  *)
(* page is asked for, or the generator ends                                *)
NextPage(p, more) ==
    /\ page_index' = p
    /\ IF more
       THEN /\ gen' = "fetching"
            /\ page_requests' = Append(page_requests,
                  PageRequest(Val(RepoTypeOrDefault(call.repo_type)), p,
                              AuthToken(call.token)))
       ELSE /\ gen' = "finished"
            /\ UNCHANGED page_requests

(* yield Discussion(...): the consumer is handed the next discussion *)
Yield(rest) ==
    /\ gen' = "suspended"
    /\ yielded' = yielded \o Handed(facade, Some(Discussion(Head(rest))))
    /\ discussions' = Tail(rest)

(* the consumer asks for the next discussion: the generator runs from its  *)
(* start (lines 2104-2127) or from the yield it is suspended at            *)
Pull ==
    /\ consumer = "iterating"
    /\ gen \in {"created", "suspended"}
    /\ UNCHANGED <<api, facade, call, hub, consumer, pages, commitvars>>
    /\ IF gen = "created"
       THEN /\ UNCHANGED <<has_next, discussions, yielded>>
            /\ IF call.repo_type \notin REPO_TYPES
               THEN /\ gen' = "raised"
                    /\ UNCHANGED <<page_index, page_requests>>
               ELSE NextPage(0, TRUE)
       ELSE IF ~Exhausted(discussions)
       THEN /\ Yield(discussions)
            /\ UNCHANGED <<has_next, page_index, page_requests>>
       ELSE /\ NextPage(page_index + 1, has_next)
            /\ UNCHANGED <<has_next, discussions, yielded>>

(* the answer to the page request arrives: lines 2120-2127, then the loop  *)
(* up to its first yield, its next request or its end                      *)
PageResponse(status) ==
    /\ gen = "fetching"
    /\ page_index <= MaxPage
    /\ UNCHANGED <<api, facade, call, hub, consumer, commitvars>>
    /\ IF StatusError(status, "discussions") # NoExc
       THEN /\ gen' = "raised"
            /\ UNCHANGED <<page_index, has_next, discussions, yielded,
                           page_requests, pages>>
       ELSE LET page == HubPage(hub, Last(page_requests).p) IN
            /\ pages' = Append(pages, page)
            /\ has_next' = HasNext(page.start, Len(page.discussions),
                                   page.count)
            /\ IF ~Exhausted(page.discussions)
               THEN /\ Yield(page.discussions)
                    /\ UNCHANGED <<page_index, page_requests>>
               ELSE /\ NextPage(page_index + 1, has_next')
                    /\ UNCHANGED <<discussions, yielded>>

(* the consumer stops iterating: it leaves its loop, or its task is        *)
(* cancelled while it waits for a page                                     *)
Stop ==
    /\ consumer = "iterating"
    /\ \/ gen \in {"created", "suspended"}
       \/ gen = "fetching" /\ facade = "async"
    /\ consumer' = "stopped"
    /\ gen' = "closed"
    /\ UNCHANGED <<api, facade, call, hub, page_index, has_next, discussions,
                   yielded, page_requests, pages, commitvars>>

DiscNext ==
    \/ gen = "none" /\ \E class \in Facades, c \in DiscussionCalls, h \in Hubs :
          GetRepoDiscussions(class, c, h)
    \/ Pull
    \/ \E status \in Statuses : PageResponse(status)
    \/ Stop

DiscSpec == Init /\ [][DiscNext]_vars

(* the consumer iterates to exhaustion and every request is answered *)
DiscFairSpec ==
    DiscSpec /\ WF_vars(Pull) /\ WF_vars(\E status \in Statuses : PageResponse(status))

TypeOK ==
    /\ pc \in {"idle", "whoami", "repo_info", "classify", "lfs", "commit",
              "done", "raised"}
    /\ api \in {"none", "create_commit", "upload_file", "upload_folder",
               "delete_file", "list_repo_files", "get_repo_discussions"}
    /\ gen \in {"none", "created", "suspended", "fetching", "finished",
               "raised", "closed"}
    /\ page_index \in 0..(MaxPage + 1)
    /\ facade \in Facades
    /\ lfs_inflight \cap lfs_done = {}

(* ---------------- properties ---------------- *)
HasRequest(kind) == \E i \in DOMAIN requests : requests[i].kind = kind
CountRequests(kind) ==
    Cardinality({i \in DOMAIN requests : requests[i].kind = kind})
ClassificationFailed ==
    \E i \in DOMAIN responses :
        responses[i].kind = "preupload" /\ responses[i].status # 200
ClassificationSucceeded ==
    \E i \in DOMAIN responses :
        responses[i].kind = "preupload" /\ responses[i].status = 200
NoRepoRequest ==
    ~HasRequest("preupload") /\ ~HasRequest("lfs") /\ ~HasRequest("commit")
Submitted == pc \in {"commit", "done"}
AddsOf(operations) ==
    SelectSeq(operations, LAMBDA op : op.kind = "add")
DeletesOf(operations) ==
    SelectSeq(operations, LAMBDA op : op.kind = "delete")
(* record r of the payload is the record of operation op *)
RecordOf(r, op) ==
    /\ r.path = op.path
    /\ op.kind = "add" => r.key \in {"file", "lfsFile"}
    /\ op.kind = "delete" => r.key = "deletedFile"
    /\ op.kind \in {"add", "delete"}

(* C1: once the classification or an LFS upload of a create_commit call    *)
(* has failed, no commit request is sent and no payload is built.          *)
C1_NoCommitAfterFailure ==
    (ClassificationFailed \/ lfs_failed # {}) =>
        /\ ~HasRequest("commit")
        /\ commit_payload = <<>>
        /\ ~Submitted

C1_Witness ==
    /\ pc = "raised"
    /\ exc.type = "UploadError"
    /\ lfs_failed # {}
    /\ lfs_done # {}

(* C2: the phases of one call are ordered: one classification request,     *)
(* answered before any LFS upload starts; every LFS upload finished before  *)
(* the commit request; no upload in flight once the commit request is sent. *)
C2_PhaseOrder ==
    /\ CountRequests("preupload") <= 1
    /\ lfs_inflight # {} => pc = "lfs"
    /\ HasRequest("lfs") => ClassificationSucceeded
    /\ \A i \in DOMAIN requests :
          requests[i].kind = "lfs" =>
            /\ \E j \in 1..(i - 1) : requests[j].kind = "preupload"
            /\ \A j \in 1..i : requests[j].kind # "commit"
    /\ HasRequest("commit") =>
          /\ lfs_inflight = {}
          /\ lfs_pending = <<>>
          /\ lfs_failed = {}
          /\ lfs_done = 1..Len(LfsAdditions(additions_with_upload_mode))
          /\ CountRequests("lfs") = Cardinality(lfs_done \ lfs_exists)

C2_Witness ==
    /\ pc = "commit"
    /\ Cardinality(lfs_done) = 2
    /\ commit_payload # <<>>

(* C3 (as claimed): a call with create_pr=True and revision "feature-x"    *)
(* raises a validation failure without having issued any request.          *)
C3_Claim ==
    (args.create_pr = Some(TRUE) /\ args.revision = Some(<<"feature-x">>)
       /\ pc # "idle") =>
        /\ pc = "raised"
        /\ exc.type = "ValueError"
        /\ requests = <<>>

(* C4: parent_commit "nothex" is rejected with a ValueError before any     *)
(* request; "a1b2c3d" and a 40-hex-character value pass the check, so that  *)
(* a call whose other arguments are valid goes on to validate its token.   *)
OtherArgsValid ==
    /\ args.commit_message = Some(<<"Update">>)
    /\ args.repo_type \in {None, Some("dataset")}
    /\ args.token = Some(<<"hf_", "user">>)
C4_ParentCommitShape ==
    pc # "idle" =>
        /\ args.parent_commit = Some(NotHex) =>
              /\ pc = "raised"
              /\ exc = Raise("ValueError", "parent_commit")
              /\ requests = <<>>
        /\ args.parent_commit \in {Some(ShortOid), Some(FullOid)} =>
              /\ exc.what # "parent_commit"
              /\ OtherArgsValid => HasRequest("whoami")

C4_Witness ==
    /\ pc = "raised"
    /\ args.parent_commit = Some(NotHex)
    /\ OtherArgsValid

(* C5: a call with an empty or missing commit_message, or with an unknown  *)
(* repo_type, ends with a ValueError and never issues a request.           *)
C5_MessageAndRepoType ==
    (pc # "idle"
       /\ \/ args.commit_message \in {None, Some(<<>>)}
          \/ args.repo_type = Some("bogus")) =>
        /\ pc = "raised"
        /\ exc.type = "ValueError"
        /\ requests = <<>>
        /\ responses = <<>>

C5_Witness ==
    /\ pc = "raised"
    /\ exc = Raise("ValueError", "commit_message")
    /\ args.commit_message = Some(<<>>)
    /\ args.token = Some(<<"hf_", "user">>)

(* C6 (as claimed): a call with two operations on the same path_in_repo is *)
(* rejected locally: it never gets as far as a repository request (the     *)
(* token validation request is not counted here).                          *)
DuplicatePaths(operations) ==
    \E i, j \in DOMAIN operations :
        /\ i < j
        /\ operations[i].path = operations[j].path
        /\ operations[i].kind \in {"add", "delete"}
        /\ operations[j].kind \in {"add", "delete"}
C6_Claim ==
    (DuplicatePaths(args.operations) /\ pc # "idle") =>
        /\ pc \in {"whoami", "raised"}
        /\ NoRepoRequest

OnlyDeletes(operations) ==
    /\ Len(operations) >= 1
    /\ \A i \in DOMAIN operations : operations[i].kind = "delete"
C8_DeleteOnly ==
    OnlyDeletes(args.operations) =>
        /\ ~HasRequest("lfs")
        /\ lfs_inflight = {}
        /\ Submitted =>
              /\ Len(commit_payload) = 1 + Len(args.operations)
              /\ commit_payload[1].key = "header"
              /\ \A i \in 2..Len(commit_payload) :
                    commit_payload[i].key = "deletedFile"

C8_Witness ==
    /\ pc = "done"
    /\ args.operations = <<OpDelete("a"), OpDelete("b")>>
    /\ Len(commit_payload) = 3

(* C9: the classification is a single request that lists every addition in *)
(* input order; its result pairs the additions with modes in that order;   *)
(* if it fails no mode is assigned, no upload starts and the call raises.  *)
C9_BatchedClassification ==
    /\ CountRequests("preupload") <= 1
    /\ pc \in {"classify", "lfs", "commit", "done"} =>
          CountRequests("preupload") = 1
    /\ \A i \in DOMAIN requests :
          requests[i].kind = "preupload" =>
            requests[i].paths =
              [k \in DOMAIN AddsOf(args.operations) |->
                 AddsOf(args.operations)[k].path]
    /\ pc \in {"lfs", "commit", "done"} =>
          /\ Len(additions_with_upload_mode) = Len(AddsOf(args.operations))
          /\ \A k \in DOMAIN additions_with_upload_mode :
                /\ additions_with_upload_mode[k][1] = AddsOf(args.operations)[k]
                /\ additions_with_upload_mode[k][2] \in {"inline", "lfs"}
    /\ ClassificationFailed =>
          /\ pc = "raised"
          /\ additions_with_upload_mode = <<>>
          /\ ~HasRequest("lfs")
          /\ ~HasRequest("commit")

C9_Witness ==
    /\ ClassificationFailed
    /\ pc = "raised"
    /\ Len(additions) = 2

(* C10: at most num_threads LFS uploads are in flight at any moment.       *)
C10_BoundedUploads == Cardinality(lfs_inflight) <= args.num_threads

C10_Witness ==
    /\ pc = "lfs"
    /\ Cardinality(lfs_inflight) = args.num_threads
    /\ lfs_pending # <<>>

(* position in the classifier result of the k-th addition marked lfs *)
LfsPosition(awm, k) ==
    CHOOSE p \in DOMAIN awm :
        /\ awm[p][2] = "lfs"
        /\ Cardinality({q \in 1..p : awm[q][2] = "lfs"}) = k

(* C11: no transfer request is ever issued for an LFS file that the        *)
(* classifier reported as already existing, such a file never fails the    *)
(* upload phase, and a submitted commit carries an lfsFile record for it.  *)
C11_AlreadyExistsSkipped ==
    /\ \A i \in DOMAIN requests :
          requests[i].kind = "lfs" => requests[i].index \notin lfs_exists
    /\ lfs_exists \cap (lfs_inflight \cup lfs_failed) = {}
    /\ Submitted =>
          \A k \in lfs_exists :
              LET p == LfsPosition(additions_with_upload_mode, k)
              IN  /\ k \in lfs_done
                  /\ commit_payload[1 + p].key = "lfsFile"
                  /\ commit_payload[1 + p].path =
                        additions_with_upload_mode[p][1].path

C11_Witness ==
    /\ pc = "done"
    /\ lfs_exists = {1}
    /\ Len(lfs_additions) = 2
    /\ CountRequests("lfs") = 1

(* C12: the uploader is handed exactly the additions marked lfs, in        *)
(* classifier order; every transfer is the transfer of one of them; all of *)
(* them have been processed when the commit is submitted; an addition      *)
(* marked inline and a deletion are never transferred.                     *)
C12_UploaderGetsLfsAdditions ==
    LET awm == additions_with_upload_mode
        marked == SelectSeq(awm, LAMBDA pair : pair[2] = "lfs")
    IN  /\ pc \in {"lfs", "commit", "done"} =>
              /\ Len(lfs_additions) = Len(marked)
              /\ \A k \in DOMAIN marked : lfs_additions[k] = marked[k][1]
        /\ \A i \in DOMAIN requests :
              requests[i].kind = "lfs" =>
                /\ requests[i].index \in DOMAIN marked
                /\ requests[i].path = marked[requests[i].index][1].path
                /\ marked[requests[i].index][1].kind = "add"
        /\ CountRequests("lfs") <= Len(marked)
        /\ Submitted => lfs_done = DOMAIN marked

C12_Witness ==
    /\ pc = "commit"
    /\ Len(additions_with_upload_mode) = 2
    /\ additions_with_upload_mode[1][2] = "inline"
    /\ additions_with_upload_mode[2][2] = "lfs"
    /\ Len(deletions) = 0
    /\ CountRequests("lfs") = 1

(* C13 (as claimed): a 404 answer to the classification request or to the  *)
(* commit request ends the call with a RepositoryNotFoundError whose       *)
(* message carries the guidance to create the repo with create_repo.       *)
C13_Claim ==
    (\E i \in DOMAIN responses :
        /\ responses[i].kind \in {"preupload", "commit"}
        /\ responses[i].status = 404) =>
        /\ pc = "raised"
        /\ exc.type = "RepositoryNotFoundError"
        /\ exc.note = "create_repo"

LastResponse == responses[Len(responses)]

(* C14: a successful call returns the pullRequestUrl of the answer to its  *)
(* commit request; the result is a pull-request reference exactly when     *)
(* create_pr was requested (the hub then opened one) and none otherwise.   *)
C14_ReturnsPrReference ==
    pc = "done" =>
        /\ LastResponse.kind = "commit"
        /\ result = LastResponse.pullRequestUrl
        /\ args.create_pr = Some(TRUE) => ~IsNone(result)
        /\ args.create_pr \in {None, Some(FALSE)} => IsNone(result)

C14_Witness ==
    /\ pc = "done"
    /\ args.create_pr = Some(TRUE)
    /\ result = Some(DiscussionUrl)
    /\ Len(args.operations) = 1

(* percent-encoding of a segmented string, written out *)
Encoded(s) == [i \in DOMAIN s |-> IF s[i] = "/" THEN "%2F" ELSE s[i]]

(* C15: the commit request is a POST to                                    *)
(* {endpoint}/api/{repo_type}s/{repo_id}/commit/{revision}, the revision   *)
(* percent-encoded and "main" when none is given; it carries create_pr=1   *)
(* exactly when the caller asked for a pull request.                       *)
C15_CommitRequestShape ==
    \A i \in DOMAIN requests :
        requests[i].kind = "commit" =>
            LET type == IF IsNone(args.repo_type) THEN "model"
                        ELSE Val(args.repo_type)
                rev == IF IsNone(args.revision) THEN <<"main">>
                       ELSE Encoded(Val(args.revision))
            IN  /\ requests[i].method = "POST"
                /\ requests[i].url =
                      <<"https://hub", "/api/", type, "s/", "user/repo",
                        "/commit/">> \o rev
                /\ \A k \in 7..Len(requests[i].url) : requests[i].url[k] # "/"
                /\ requests[i].params = Some(<<"create_pr", "1">>)
                      <=> args.create_pr = Some(TRUE)
                /\ requests[i].params \in {None, Some(<<"create_pr", "1">>)}

C15_Witness ==
    /\ pc = "commit"
    /\ args.revision = Some(<<"refs", "/", "pr", "/", "1">>)
    /\ args.repo_type = Some("dataset")
    /\ HasRequest("commit")

(* C16 (as claimed): a method of HfApi issues the requests and returns the *)
(* result that the method of AsyncHfApi issues and returns for the same    *)
(* arguments.                                                              *)
C16_Claim ==
    /\ (pc = "done" /\ api \in {"create_commit", "upload_file",
                                "upload_folder", "delete_file"}) =>
          returned = WrapperOutcome(api, "async", call, result).value
    /\ (pc # "idle" /\ api = "list_repo_files") =>
          IF call.repo_type = Some("bogus")
          THEN pc = "raised" /\ requests = <<>>
          ELSE requests = <<RepoInfoRequest(call)>>

(* u is a URL {endpoint}/.../blob/.../{path} *)
IsBlobUrl(u, path) ==
    /\ Len(u) >= 4 + Len(path)
    /\ u[1] = "https://hub"
    /\ \E k \in DOMAIN u : u[k] = "/blob/"
    /\ SubSeq(u, Len(u) - Len(path) + 1, Len(u)) = path

(* upload_file and delete_file hand create_commit exactly one operation:   *)
(* one Add, respectively one Delete, of path_in_repo                       *)
SingleOperation ==
    (api \in {"upload_file", "delete_file"} /\ pc # "idle"
       /\ args # NoArgs) =>
        /\ Len(args.operations) = 1
        /\ args.operations[1].kind =
              (IF api = "upload_file" THEN "add" ELSE "delete")
        /\ args.operations[1].path = Val(call.path_in_repo)

FinalPath(prefix, rel) ==
    (IF prefix = <<>> THEN <<>> ELSE prefix \o <<"/">>)
      \o [i \in DOMAIN rel |-> IF rel[i] = "os.sep" THEN "/" ELSE rel[i]]

(* C18: upload_folder hands create_commit one Add per regular file of the  *)
(* folder, in walk order, its path_in_repo the prefix joined to the        *)
(* relative path with forward slashes; kept are the files whose            *)
(* path_in_repo matches an allow pattern (when given) and no ignore        *)
(* pattern (when given). allow ["*.bin"] over a.bin, a.txt keeps a.bin.    *)
C18_FolderWalk ==
    (api = "upload_folder" /\ walked /\ pc # "idle") =>
        LET prefix == IF IsNone(call.path_in_repo) THEN <<>>
                      ELSE Val(call.path_in_repo)
            rel == walk(call.folder_path)
            all == [i \in DOMAIN rel |-> FinalPath(prefix, rel[i])]
            kept == SelectSeq(all, LAMBDA p :
                      /\ IsNone(call.allow_patterns)
                            \/ \E k \in DOMAIN Val(call.allow_patterns) :
                                  fnmatch(p, Val(call.allow_patterns)[k])
                      /\ IsNone(call.ignore_patterns)
                            \/ \A k \in DOMAIN Val(call.ignore_patterns) :
                                  ~fnmatch(p, Val(call.ignore_patterns)[k]))
        IN  /\ Len(args.operations) = Len(kept)
            /\ \A k \in DOMAIN kept :
                  /\ args.operations[k].kind = "add"
                  /\ args.operations[k].path = kept[k]
                  /\ \A i \in DOMAIN kept[k] : kept[k][i] # "os.sep"
            /\ (call.folder_path = "model_dir"
                  /\ call.allow_patterns = Some(<< <<"*", ".bin">> >>)
                  /\ IsNone(call.ignore_patterns)
                  /\ IsNone(call.path_in_repo)) =>
                  /\ Len(args.operations) = 1
                  /\ args.operations[1].path = <<"a", ".bin">>

C18_Witness ==
    /\ api = "upload_folder"
    /\ walked
    /\ call.folder_path = "tree"
    /\ call.path_in_repo = Some(<<"ckpt">>)
    /\ call.allow_patterns = Some(<< <<"ckpt", "/", "*">> >>)
    /\ call.ignore_patterns = Some(<< <<"*", ".txt">> >>)
    /\ Len(args.operations) = 1
    /\ args.operations[1].path = <<"ckpt", "/", "sub", "/", "b", ".bin">>

(* C19: upload_folder on a path that does not exist or is not a directory  *)
(* raises a ValueError without having begun the walk and without any       *)
(* request.                                                                *)
C19_NotADirectory ==
    (api = "upload_folder" /\ pc # "idle"
       /\ call.folder_path \in {"missing", "notes.txt"}) =>
        /\ pc = "raised"
        /\ exc.type = "ValueError"
        /\ ~walked
        /\ requests = <<>>
        /\ responses = <<>>

C19_Witness ==
    /\ api = "upload_folder"
    /\ pc = "raised"
    /\ call.folder_path = "notes.txt"
    /\ exc = Raise("ValueError", "not_a_directory")
    /\ call.token = Some(<<"hf_", "user">>)
    /\ call.commit_message = Some(<<"Update">>)

(* C20: no step of a create_commit, upload_file, upload_folder,            *)
(* delete_file or list_repo_files call changes the token file or the git   *)
(* credential store; the credential store changes only in a step of        *)
(* set_access_token / unset_access_token and the token file only in a step *)
(* of HfFolder.save_token / delete_token.                                  *)
C20_TokenFrame ==
    [][/\ (pc # "idle" \/ pc' # "idle") =>
             /\ saved_token' = saved_token
             /\ credential_store' = credential_store
       /\ credential_store' # credential_store =>
             \/ \E t \in AccessTokens : SetAccessToken(t)
             \/ UnsetAccessToken
       /\ saved_token' # saved_token =>
             \/ \E t \in AccessTokens : SaveToken(t)
             \/ DeleteToken]_vars

C20_Witness ==
    /\ pc = "done"
    /\ api = "delete_file"
    /\ call.token = None
    /\ saved_token = Some(<<"hf_", "saved">>)
    /\ credential_store = Some(<<"hf_", "saved">>)
    /\ token = saved_token

(* a request of the given kind was answered with a failure *)
FailedKind(kind) ==
    \E i \in DOMAIN responses :
        responses[i].kind = kind /\ responses[i].status # 200
(* the step issues exactly one request, and it is not a repetition: a      *)
(* whoami, classification or commit request is the first of its kind, an   *)
(* LFS upload is the first for its file                                    *)
IssuesOneFreshRequest ==
    \E r \in {requests'[Len(requests')]} :
        /\ requests' = Append(requests, r)
        /\ r.kind \in {"whoami", "preupload", "commit"} => ~HasRequest(r.kind)
        /\ r.kind = "lfs" =>
             ~\E i \in DOMAIN requests :
                 requests[i].kind = "lfs" /\ requests[i].index = r.index

(* C21 as stated: within one create_commit call the classification and the *)
(* commit request are each issued at most once, and once any request has   *)
(* failed no further request of the call is issued.                        *)
C21_Claim ==
    [][/\ pc # "idle" /\ requests' # requests => IssuesOneFreshRequest
       /\ (\E i \in DOMAIN responses : responses[i].status # 200)
            => requests' = requests]_vars

(* C21 (amended): within one create_commit call no request is repeated     *)
(* (whoami, classification and commit at most once, each LFS file at most  *)
(* once); once the whoami, classification or commit request has failed no  *)
(* further request is issued; once an LFS upload has failed the only       *)
(* requests still issued are uploads of other files of the same pool, and  *)
(* never the commit request.                                               *)
C21_NoRetry ==
    [][/\ pc # "idle" /\ requests' # requests => IssuesOneFreshRequest
       /\ FailedKind("whoami") \/ FailedKind("preupload") \/ FailedKind("commit")
            => requests' = requests
       /\ FailedKind("lfs") /\ requests' # requests
            => requests'[Len(requests')].kind = "lfs"]_vars

C21_Witness ==
    /\ pc = "raised"
    /\ FailedKind("lfs")
    /\ CountRequests("lfs") = 2
    /\ CountRequests("preupload") = 1
    /\ ~HasRequest("commit")

(* the local state of invocation p, running or suspended *)
CallerLocals(p) == IF p = self THEN Locals ELSE Suspended
(* the commits the hub applied for invocation p *)
AppliedFor(p) == {i \in DOMAIN applied : applied[i].caller = p}
(* invocation l asks for the parent-commit check on its branch *)
Guarded(l) ==
    /\ l.pc # "idle"
    /\ ~IsNone(l.args.parent_commit)
    /\ ~CreatePrOrDefault(l.args.create_pr)

(* C22: a parent_commit supplied without create_pr is forwarded in the     *)
(* header of the commit payload; the hub applies such a commit only while  *)
(* the revision points to parent_commit; so of two concurrent invocations  *)
(* on the same revision that supply the same parent_commit at most one     *)
(* commit is applied and at most one invocation succeeds.                  *)
C22_NoLostUpdate ==
    /\ \A p \in Callers :
         LET l == CallerLocals(p) IN
         /\ l.pc \in {"commit", "done"} =>
              l.commit_payload[1].parentCommit = l.args.parent_commit
         /\ Guarded(l) =>
              \A i \in AppliedFor(p) :
                  applied[i].base = Val(l.args.parent_commit)
         /\ l.pc = "done" => Cardinality(AppliedFor(p)) = 1
    /\ LET l1 == CallerLocals(1)
           l2 == CallerLocals(2)
       IN
       /\ Guarded(l1) /\ Guarded(l2)
       /\ l1.args.parent_commit = l2.args.parent_commit
       /\ RevisionOrDefault(l1.args.revision)
             = RevisionOrDefault(l2.args.revision)
       => /\ ~(l1.pc = "done" /\ l2.pc = "done")
          /\ Len(applied) <= 1

C22_Witness ==
    /\ pc = "raised"
    /\ exc.what = "commit"
    /\ Suspended.pc = "done"
    /\ Guarded(Locals)
    /\ Guarded(Suspended)
    /\ args.parent_commit = Some(HeadOid)
    /\ Suspended.args.parent_commit = Some(HeadOid)
    /\ args.revision = Suspended.args.revision
    /\ Len(applied) = 1

PathsOf(ops) == [i \in 1..Len(ops) |-> ops[i].path]
(* the requests and the outcome of invocation l are those its own          *)
(* arguments and the answers it received determine                         *)
DeterminedByOwnCall(l) ==
    LET a == l.args
        tok == RetrieveToken(a.token)
        reqs == l.requests
        resps == l.responses
    IN
    /\ \A i \in DOMAIN reqs :
         /\ reqs[i].token = tok
         /\ reqs[i].kind = "preupload" =>
              reqs[i].paths = PathsOf(Additions(a.operations))
         /\ reqs[i].kind = "lfs" =>
              \E k \in DOMAIN a.operations :
                  IsAdd(a.operations[k])
                  /\ a.operations[k].path = reqs[i].path
         /\ reqs[i].kind = "commit" =>
              /\ reqs[i] = CommitRequest(tok,
                     Val(RepoTypeOrDefault(a.repo_type)),
                     RevisionOrDefault(a.revision),
                     CreatePrOrDefault(a.create_pr))
              /\ l.commit_payload[1].summary = a.commit_message
              /\ l.commit_payload[1].parentCommit = a.parent_commit
              /\ [k \in 1..(Len(l.commit_payload) - 1) |->
                     l.commit_payload[k + 1].path]
                    = PathsOf(Additions(a.operations))
                        \o PathsOf(Deletions(a.operations))
    /\ l.pc = "done" =>
         /\ Last(resps).kind = "commit"
         /\ Last(resps).status = 200
         /\ l.result = Last(resps).pullRequestUrl
         /\ l.returned = l.result
    /\ l.pc = "raised" /\ resps # <<>> /\ l.exc.type # "UploadError" =>
         \/ Last(resps).status # 200
         \/ l.exc.type \in {"ValueError", "RuntimeError"}
    /\ l.pc = "raised" /\ l.exc.type = "UploadError" =>
         \E i \in DOMAIN resps :
             resps[i].kind = "lfs" /\ resps[i].status # 200

(* C23: two invocations of create_commit share no mutable state: in every  *)
(* interleaving each invocation's requests (token, paths, URL, parameters, *)
(* payload) and outcome are those determined by its own arguments and the  *)
(* answers it received, and two invocations that got the same arguments    *)
(* and the same answers end with the same requests and the same outcome.   *)
C23_SelfContained ==
    /\ \A p \in Callers : DeterminedByOwnCall(CallerLocals(p))
    /\ LET l1 == CallerLocals(1)
           l2 == CallerLocals(2)
       IN
       /\ l1.pc \in {"done", "raised"}
       /\ l2.pc \in {"done", "raised"}
       /\ l1.args = l2.args
       /\ l1.responses = l2.responses
       => /\ l1.pc = l2.pc
          /\ l1.exc = l2.exc
          /\ l1.result = l2.result
          /\ {l1.requests[i] : i \in DOMAIN l1.requests}
               = {l2.requests[i] : i \in DOMAIN l2.requests}

C23_Witness ==
    /\ pc = "commit"
    /\ Suspended.pc = "lfs"
    /\ Suspended.lfs_inflight # {}
    /\ token # Suspended.token
    /\ Len(applied) = 0

(* the pull requests the hub opened *)
PullRequests == {i \in DOMAIN applied : applied[i].pr}

(* C24: a successful commit made with create_pr=True opens exactly one     *)
(* pull request: every pull request on the hub was opened for a call that  *)
(* asked for one, a call that asked for one and succeeded has opened       *)
(* exactly one, and a call issues at most one commit request.              *)
C24_OnePullRequestPerCall ==
    /\ \A p \in Callers :
         LET l == CallerLocals(p) IN
         /\ Cardinality({i \in DOMAIN l.requests :
                            l.requests[i].kind = "commit"}) <= 1
         /\ Cardinality(AppliedFor(p) \cap PullRequests)
              = IF l.pc \in {"commit", "done"} /\ l.create_pr
                   /\ answers[p] = Some(200)
                THEN 1 ELSE 0
         /\ l.pc = "done" /\ CreatePrOrDefault(l.args.create_pr) =>
              /\ Cardinality(AppliedFor(p) \cap PullRequests) = 1
              /\ ~IsNone(l.result)
    /\ Cardinality(PullRequests)
         = Cardinality({p \in Callers :
              /\ CallerLocals(p).pc = "done"
              /\ CallerLocals(p).create_pr})
           + Cardinality({p \in Callers :
              /\ CallerLocals(p).pc = "commit"
              /\ CallerLocals(p).create_pr
              /\ answers[p] = Some(200)})

C24_Witness ==
    /\ pc = "done"
    /\ create_pr
    /\ Suspended.pc = "idle"
    /\ Cardinality(PullRequests) = 1
    /\ Len(applied) = 1

RECURSIVE Received(_)
(* the discussions of the pages ps, in the order the hub sent them *)
Received(ps) ==
    IF ps = <<>> THEN <<>>
    ELSE Received(SubSeq(ps, 1, Len(ps) - 1))
           \o [i \in 1..Len(Last(ps).discussions) |->
                  Discussion(Last(ps).discussions[i])]
IsPrefix(s, t) == Len(s) <= Len(t) /\ SubSeq(t, 1, Len(s)) = s

(* C25: the listing of get_repo_discussions, through either class, is a    *)
(* forward-only lazy sequence: the consumer is handed the discussions in   *)
(* the hub's order and what it holds only grows; at most one page request  *)
(* is outstanding; a page request is issued only when every discussion of  *)
(* the pages received so far has been handed over; and once the consumer   *)
(* has stopped no page request is issued.                                  *)
C25_LazyPages ==
    [][/\ IsPrefix(yielded, yielded')
       /\ IsPrefix(yielded', Received(pages'))
       /\ Len(Received(pages')) = Len(yielded') + Len(discussions')
       /\ Len(page_requests') <= Len(pages') + 1
       /\ page_requests' # page_requests =>
            /\ Len(page_requests') = Len(page_requests) + 1
            /\ Len(page_requests') = Len(pages') + 1
            /\ yielded' = Received(pages')
            /\ consumer' = "iterating"
       /\ consumer = "stopped" =>
            page_requests' = page_requests /\ yielded' = yielded]_vars

C25_Witness ==
    /\ consumer = "stopped"
    /\ facade = "sync"
    /\ has_next
    /\ Len(page_requests) = 1
    /\ Len(yielded) = 1

(* the hub has a fixed count and serves at least one discussion on every   *)
(* page while discussions remain                                           *)
WellBehaved(h) == h.size >= 1 /\ h.offset = 0
(* the page ends the listing: start + (number of discussions) >= count *)
IsLastPage(page) == page.start + Len(page.discussions) >= page.count

(* C26: the pages are requested in the order 0, 1, 2, ...; no page is      *)
(* requested after the first page with start + (number of discussions)     *)
(* >= count, and the iteration ends only after such a page; against a hub  *)
(* with a fixed count that serves at least one discussion per page, an     *)
(* iteration that is carried on ends, and when it ends normally every      *)
(* discussion has been handed over exactly once, in order.                 *)
C26_ExhaustiveIteration ==
    /\ [](/\ \A i \in DOMAIN page_requests : page_requests[i].p = i - 1
          /\ \A i \in DOMAIN pages :
                IsLastPage(pages[i]) =>
                    i = Len(pages) /\ Len(page_requests) = i
          /\ gen = "finished" =>
                pages # <<>> /\ IsLastPage(Last(pages))
          /\ gen = "finished" /\ WellBehaved(hub) =>
                yielded = [i \in 1..hub.count |-> Discussion([num |-> i])])
    /\ (gen = "created" /\ WellBehaved(hub))
          ~> (gen \in {"finished", "raised", "closed"})

C26_Witness ==
    /\ gen = "finished"
    /\ WellBehaved(hub)
    /\ hub.count = MaxCount
    /\ Len(pages) = 2
    /\ Len(yielded) = MaxCount

(* the list holds an element that is neither an addition nor a deletion *)
HasUnknownOperation(operations) ==
    \E i \in DOMAIN operations : ~IsAdd(operations[i]) /\ ~IsDelete(operations[i])

IsOrgToken(t) == t # <<>> /\ t[1] = "api_org"
(* the token the call works with: the one passed, else the stored one *)
CallToken == IF IsNone(args.token) THEN saved_token ELSE args.token
RepoKinds == {"preupload", "lfs", "commit"}

(* C28: every classification, LFS and commit request of a create_commit    *)
(* call carries the token of the call (passed or stored), which is not an  *)
(* organization token and which the first request of the call, whoami,     *)
(* carried and the hub accepted; a call with no token passed or stored,    *)
(* with an organization token or with a token whoami rejects raises and    *)
(* issues none of those requests.                                          *)
C28_ValidatedToken ==
    /\ \A i \in DOMAIN requests :
         requests[i].kind \in RepoKinds =>
             /\ ~IsNone(CallToken)
             /\ requests[i].token = CallToken
             /\ ~IsOrgToken(Val(requests[i].token))
             /\ i > 1
             /\ requests[1].kind = "whoami"
             /\ requests[1].token = requests[i].token
             /\ responses[1] = Response("whoami", 200)
    /\ pc # "idle" /\ (IsNone(CallToken) \/ IsOrgToken(Val(CallToken))) =>
         /\ pc = "raised"
         /\ requests = <<>>
    /\ pc # "idle" /\ responses # <<>> /\ responses[1].status # 200 =>
         /\ pc = "raised"
         /\ exc = Raise("ValueError", "invalid_token")
         /\ NoRepoRequest

C28_Witness ==
    /\ pc = "commit"
    /\ IsNone(args.token)
    /\ HasRequest("lfs")
    /\ \A i \in DOMAIN requests : requests[i].token = saved_token

(* the wrapper has entered create_commit *)
EnteredCreateCommit == args # NoArgs
(* the text of the default message of the running wrapper call *)
DefaultMessage ==
    <<IF api = "delete_file" THEN "Delete " ELSE "Upload ">>
      \o (IF IsNone(call.path_in_repo) THEN <<>> ELSE Val(call.path_in_repo))
      \o <<" with huggingface_hub">>

(* C29: upload_file, upload_folder (also without path_in_repo) and         *)
(* delete_file called without commit_message hand create_commit their      *)
(* non-empty default message, so the call never fails for an empty         *)
(* message; a message that is passed is handed on as it is, and an empty   *)
(* one makes the call raise ValueError (from the empty-message check of    *)
(* create_commit once the wrapper's own checks have passed) before any     *)
(* request.                                                                *)
C29_DefaultMessages ==
    api \in {"upload_file", "upload_folder", "delete_file"} /\ pc # "idle" =>
        /\ IsNone(call.commit_message) =>
             /\ exc # Raise("ValueError", "commit_message")
             /\ EnteredCreateCommit =>
                  /\ args.commit_message = Some(DefaultMessage)
                  /\ Val(args.commit_message) # <<>>
        /\ ~IsNone(call.commit_message) /\ EnteredCreateCommit =>
             args.commit_message = call.commit_message
        /\ call.commit_message = Some(<<>>) =>
             /\ pc = "raised"
             /\ exc.type = "ValueError"
             /\ requests = <<>>
             /\ EnteredCreateCommit =>
                  exc = Raise("ValueError", "commit_message")

C29_Witness ==
    /\ api = "upload_folder"
    /\ IsNone(call.path_in_repo)
    /\ IsNone(call.commit_message)
    /\ pc = "done"
    /\ Len(additions) = 2

(* the revision segment of a URL returned by upload_file or upload_folder: *)
(* what stands between /blob/ or /tree/ and the next /                     *)
RevisionSegment(url) ==
    LET k == CHOOSE i \in DOMAIN url : url[i] \in {"/blob/", "/tree/"}
        e == CHOOSE j \in (k + 1)..Len(url) :
                 url[j] = "/" /\ \A m \in (k + 1)..(j - 1) : url[m] # "/"
    IN  SubSeq(url, k + 1, e - 1)
(* the URL ends in /discussions/<number> *)
EndsInDiscussionNumber(url) ==
    /\ Len(url) >= 2
    /\ url[Len(url) - 1] = "/discussions/"
    /\ url[Len(url)] \in {"0", "1", "2", "3", "4", "5", "6", "7", "8", "9"}
UploadWrappers == {"upload_file", "upload_folder"}

(* C30: when the commit of upload_file or upload_folder created a pull     *)
(* request, the revision segment of the returned URL is refs%2Fpr%2F<n>,   *)
(* n being the number the pull-request URL ends in; when that URL does not *)
(* end in /discussions/<number> the call raises RuntimeError, and it does  *)
(* so only after its one commit request was answered with success, with    *)
(* no request issued after it.                                             *)
C30_PrRevision ==
    api \in UploadWrappers =>
        /\ pc = "done" /\ ~IsNone(result) =>
             /\ EndsInDiscussionNumber(Val(result))
             /\ RevisionSegment(Val(returned))
                  = <<"refs", "%2F", "pr", "%2F", Last(Val(result))>>
        /\ (responses # <<>> /\ Last(responses).kind = "commit"
              /\ Last(responses).status = 200
              /\ ~IsNone(Last(responses).pullRequestUrl)
              /\ ~EndsInDiscussionNumber(Val(Last(responses).pullRequestUrl)))
             => pc = "raised" /\ exc = Raise("RuntimeError", "pr_url")
        /\ exc.type = "RuntimeError" =>
             /\ pc = "raised"
             /\ create_pr
             /\ Last(responses).kind = "commit"
             /\ Last(responses).status = 200
             /\ Last(requests).kind = "commit"
             /\ CountRequests("commit") = 1
             /\ Len(responses) = Len(requests)

C30_Witness ==
    /\ api = "upload_folder"
    /\ pc = "raised"
    /\ exc = Raise("RuntimeError", "pr_url")
    /\ Last(responses).pullRequestUrl = Some(OtherUrl)
    /\ HasRequest("lfs")

====
